---- MODULE Spec2Model ----
(***************************************************************************)
(* One Click Decimate (src/One_Click_Decimate.py).                         *)
(*                                                                         *)
(* Two state machines over the same variables:                             *)
(*   Spec      one invocation of transfer_mesh_data(source, target), one   *)
(*             step per loop iteration (snap loop, group loop, key loop);  *)
(*   SpecExec  one run of OBJECT_OT_one_click_decimate.execute, one step   *)
(*             per stage of the handler.                                   *)
(*                                                                         *)
(* Geometry is one-dimensional: a position is an integer coordinate, a     *)
(* world matrix is a translation, a triangle covers the interval spanned   *)
(* by its three corners.  Weights are integers 0..WeightLevels (the last   *)
(* is 1.0).  Shape-key value and slider bounds are in thousandths.         *)
(***************************************************************************)
EXTENDS Integers, Sequences, FiniteSets, TLC

MaxSrcVerts == 4
MaxTgtVerts == 2
MaxCoord == 2
MaxOffset == 1
MaxTris == 2
MaxKeys == 3
MaxGroups == 2
MaxCollapse == 1
WeightLevels == 2

VARIABLES
    source,         \* the source object: mesh, frame, vertex groups, shape keys
    target,         \* the target (working) object
    target0,        \* the target as transfer_mesh_data received it
    vert_map,       \* vert_map of transfer_mesh_data
    hit,            \* per mapped target vertex, the face find_nearest returned
    queried,        \* the target vertices the snap loop has visited
    key_block_map,  \* key_block_map of transfer_mesh_data
    pc,             \* the position in the function being run
    idx,            \* the position in the loop being run
    ctx,            \* the scene context: active object, selection, hidden, mode
    entry,          \* the scene context when execute was entered
    work,           \* what execute built: the duplicate's mesh, LOCK group, modifier
    result          \* what execute returned and reported

vars == <<source, target, target0, vert_map, hit, queried, key_block_map,
          pc, idx, ctx, entry, work, result>>

(***************************************************************************)
(* Helpers                                                                 *)
(***************************************************************************)
Abs(x) == IF x < 0 THEN -x ELSE x

MinOf(S) == CHOOSE x \in S : \A y \in S : x <= y

MaxOf(S) == CHOOSE x \in S : \A y \in S : x >= y

Clamp(x, lo, hi) == IF x < lo THEN lo ELSE IF x > hi THEN hi ELSE x

Range(s) == {s[i] : i \in DOMAIN s}

Empty == [x \in {} |-> 0]

(***************************************************************************)
(* Names.  A name is <<base, n>>: n = 0 is the plain name, n > 0 the name  *)
(* with the numeric suffix ".00n" that the host gives a new item whose     *)
(* requested name is taken.                                                *)
(***************************************************************************)
Plain(base) == <<base, 0>>

Uniq(name, used) ==
    IF name \notin used THEN name
    ELSE <<name[1], MinOf({n \in 1..(Cardinality(used) + 1) : <<name[1], n>> \notin used})>>

Names(items) == {items[i].name : i \in DOMAIN items}

(***************************************************************************)
(* transfer_mesh_data: the snap loop                                       *)
(***************************************************************************)
\* target_to_world @ v.co, then world_to_source @ world_pos
LocalPos(src, tgt, co) == (co + tgt.off) - src.off

\* distance from q to the surface of one source triangle
TriDist(src, tri, q) ==
    LET xs == {src.co[tri[k]] : k \in 1..3}
    IN  IF q < MinOf(xs) THEN MinOf(xs) - q
        ELSE IF q > MaxOf(xs) THEN q - MaxOf(xs) ELSE 0

\* src_tree.find_nearest: the faces a nearest-surface query can return
\* (none on a mesh without faces; any of the nearest on a tie)
FindNearest(src, q) ==
    {f \in DOMAIN src.faces :
        \A g \in DOMAIN src.faces :
            TriDist(src, src.faces[f], q) <= TriDist(src, src.faces[g], q)}

VertDist(src, sv, q) == Abs(src.co[sv] - q)

\* the first corner of the face, whatever its distance
NearestVFirst(src, tri, q) == tri[1]

\* min(face.verts, key=...): the first corner, in the face's order, at
\* minimal distance
NearestV(src, tri, q) ==
    LET k == MinOf({i \in 1..3 :
                     \A j \in 1..3 : VertDist(src, tri[i], q) <= VertDist(src, tri[j], q)})
    IN  tri[k]

\* v.co = nearest_v.co
SnappedCo(src, nv, q) == src.co[nv]

(***************************************************************************)
(* transfer_mesh_data: vertex groups                                       *)
(***************************************************************************)
\* vertex_groups.new(name=...)
NewGroup(groups, name) ==
    Append(groups, [name |-> Uniq(name, Names(groups)), w |-> Empty])

\* target_group.add([t_idx], weight, "REPLACE")
GroupAdd(w, t, weight) ==
    [x \in (DOMAIN w) \cup {t} |-> IF x = t THEN weight ELSE w[x]]

\* every entry of the group is kept, an explicit zero included
TransferableAny(g, s) == s \in DOMAIN g.w

\* src_group.weight(s_idx) raises when s_idx is not in the group (swallowed
\* by the except clause); otherwise the weight is kept when > 0.0
Transferable(g, s) == s \in DOMAIN g.w /\ g.w[s] > 0

\* the weight is looked up at the target's own index
LookupOwnIdx(map, t) == t

\* the source vertex whose weight the loop body looks up for t_idx
LookupIdx(map, t) == map[t]

RECURSIVE FillGroup(_, _, _, _)
FillGroup(w, g, map, todo) ==
    IF todo = {} THEN w
    ELSE LET t == MinOf(todo)
             s == LookupIdx(map, t)
         IN  FillGroup(IF Transferable(g, s) THEN GroupAdd(w, t, g.w[s]) ELSE w,
                       g, map, todo \ {t})

\* one iteration of "for src_group in source.vertex_groups"
TransferGroup(groups, g, map) ==
    LET gs == NewGroup(groups, g.name)
        n  == Len(gs)
    IN  [gs EXCEPT ![n].w = FillGroup(Empty, g, map, DOMAIN map)]

(***************************************************************************)
(* transfer_mesh_data: shape keys                                          *)
(***************************************************************************)
\* the relative mix of the key blocks, as the host evaluates it:
\* reference + sum of value * (key - its relative key) over unmuted keys
RECURSIVE MixAt(_, _, _)
MixAt(keys, t, k) ==
    IF k < 2 THEN keys[1].co[t]
    ELSE MixAt(keys, t, k - 1)
         + (IF keys[k].mute THEN 0
            ELSE (keys[k].value * (keys[k].co[t] - keys[keys[k].rel].co[t])) \div 1000)

\* Object.shape_key_add(name, from_mix=True): the first key is the basis,
\* taken from the mesh; a later key starts as the current mix
ShapeKeyAdd(keys, meshco, name) ==
    Append(keys,
           [name |-> Uniq(name, Names(keys)),
            rel |-> 1,
            co |-> IF keys = <<>> THEN meshco
                   ELSE [t \in DOMAIN meshco |-> MixAt(keys, t, Len(keys))],
            value |-> 0, slider_min |-> 0, slider_max |-> 1000,
            mute |-> FALSE, interpolation |-> "KEY_LINEAR", vertex_group |-> "",
            orig |-> FALSE])

\* lines 82-88: the reference key and the initial name lookup
KeysBegin(src, tgt) ==
    LET ks0 == IF tgt.keys = <<>>
               THEN ShapeKeyAdd(tgt.keys, tgt.co, src.keys[1].name)
               ELSE tgt.keys
        others == {ks0[i].name : i \in 2..Len(ks0)}
        ks1 == [ks0 EXCEPT ![1].name = Uniq(src.keys[1].name, others)]
    IN  [keys |-> ks1, kbm |-> (src.keys[1].name :> 1)]

\* an unmapped vertex takes the source key's position at its own index
CopyCoByIndex(co, sk, map) ==
    [t \in DOMAIN co |->
        IF t \in DOMAIN map THEN sk.co[map[t]]
        ELSE IF t \in DOMAIN sk.co THEN sk.co[t] ELSE co[t]]

\* new_sk.data[t_idx].co = sk_src.data[s_idx].co.copy() for the mapping pairs
CopyCo(co, sk, map) ==
    [t \in DOMAIN co |-> IF t \in DOMAIN map THEN sk.co[map[t]] ELSE co[t]]

\* only the reference key's name, as the lookup held it before the loop
ReferenceNameOnly(kbm, src) == {src.keys[1].name}

\* lines 106-107: the name the relative key is looked up by, and the lookup
KnownNames(kbm, src) == DOMAIN kbm

Relink(k, sk, kbm, src) ==
    LET rn == src.keys[sk.rel].name
    IN  IF rn \in KnownNames(kbm, src) THEN [k EXCEPT !.rel = kbm[rn]] ELSE k

\* lines 99-104, in the order written; the host limits value to the key's
\* current slider range and keeps slider_min below slider_max
CopyMeta(k, sk) ==
    LET k1 == [k EXCEPT !.value = Clamp(sk.value, k.slider_min, k.slider_max)]
        k2 == [k1 EXCEPT !.slider_min = Clamp(sk.slider_min, -10000, k1.slider_max - 1)]
        k3 == [k2 EXCEPT !.slider_max = Clamp(sk.slider_max, k2.slider_min + 1, 10000)]
    IN  [k3 EXCEPT !.mute = sk.mute,
                   !.interpolation = sk.interpolation,
                   !.vertex_group = sk.vertex_group]

\* one iteration of "for sk_src in src_keys.key_blocks" (i is the key's
\* index; the reference key, index 1, is skipped)
KeyCopy(st, src, i, map) ==
    IF i = 1 THEN st
    ELSE LET sk   == src.keys[i]
             ks   == ShapeKeyAdd(st.keys, st.keys[1].co, sk.name)
             n    == Len(ks)
             kbm1 == [nm \in (DOMAIN st.kbm) \cup {sk.name} |->
                         IF nm = sk.name THEN n ELSE st.kbm[nm]]
             k1   == [ks[n] EXCEPT !.co = CopyCo(ks[n].co, sk, map)]
             k2   == CopyMeta(k1, sk)
             k3   == Relink(k2, sk, kbm1, src)
         IN  [keys |-> [ks EXCEPT ![n] = k3], kbm |-> kbm1]

(***************************************************************************)
(* Inputs of transfer_mesh_data                                            *)
(***************************************************************************)
Coords == 0..MaxCoord

Offsets == 0..MaxOffset

\* the triangles over vertices 1..n, each with the three corner orders of
\* one winding (any corner can come first)
Tris(n) ==
    {t \in [1..3 -> 1..n] :
        \/ t[1] < t[2] /\ t[2] < t[3]
        \/ t[2] < t[3] /\ t[3] < t[1]
        \/ t[3] < t[1] /\ t[1] < t[2]}

TriCode(t) == (t[1] * (MaxSrcVerts + 1) + t[2]) * (MaxSrcVerts + 1) + t[3]

\* face lists of at most MaxTris triangles (listed once, whatever the order)
FaceSeqs(n) ==
    {fs \in UNION {[1..k -> Tris(n)] : k \in 0..MaxTris} :
        \A i \in 1..(Len(fs) - 1) : TriCode(fs[i]) < TriCode(fs[i + 1])}

\* the edges of a face list
FaceEdges(fs) ==
    UNION {{{fs[i][1], fs[i][2]}, {fs[i][2], fs[i][3]}, {fs[i][3], fs[i][1]}} : i \in DOMAIN fs}

NonDecreasing(co) == \A i \in DOMAIN co : \A j \in DOMAIN co : i < j => co[i] <= co[j]

SparseWeights(n) == UNION {[S -> 0..WeightLevels] : S \in SUBSET (1..n)}

Group(name, w) == [name |-> Plain(name), w |-> w]

Key(name, rel, co, meta) ==
    [name |-> Plain(name), rel |-> rel, co |-> co,
     value |-> meta[1], slider_min |-> meta[2], slider_max |-> meta[3],
     mute |-> meta[4], interpolation |-> "KEY_LINEAR", vertex_group |-> "",
     orig |-> TRUE]

\* <<value, slider_min, slider_max, mute>> of a source key
Metas == {<<0, 0, 1000, FALSE>>, <<1000, 0, 1000, TRUE>>,
          <<2000, 0, 2000, FALSE>>, <<2000, 1000, 3000, FALSE>>}

Shifted(co, d) == [v \in DOMAIN co |-> co[v] + d * (v % 2)]

ProbeGroups(n) ==
    <<Group("Arm", [v \in 1..(n - 1) |-> v % (WeightLevels + 1)])>>

ProbeKeys(co) ==
    <<Key("Basis", 1, co, <<0, 0, 1000, FALSE>>),
      Key("Smile", 1, Shifted(co, 1), <<1000, 0, 1000, FALSE>>)>>

Mesh(co, faces, off, groups, keys) ==
    [co |-> co, faces |-> faces, edges |-> FaceEdges(faces), seam |-> {},
     border |-> {}, uv |-> TRUE, off |-> off, groups |-> groups, keys |-> keys,
     active_key |-> IF keys = <<>> THEN 0 ELSE Len(keys) - 1]

Object(co, off, groups, keys, active_key) ==
    [co |-> co, off |-> off, groups |-> groups, keys |-> keys,
     active_key |-> active_key]

(***************************************************************************)
(* Spec: one invocation of transfer_mesh_data(source, target)              *)
(***************************************************************************)
\* sources whose geometry varies, with fixed groups and keys
GeoSources ==
    {Mesh(co, fs, off, ProbeGroups(n), ProbeKeys(co)) :
        n \in {MaxSrcVerts}, off \in Offsets,
        co \in {c \in [1..MaxSrcVerts -> Coords] : NonDecreasing(c)},
        fs \in FaceSeqs(MaxSrcVerts)}

StaleGroups(n) == <<Group("Arm", [t \in 1..n |-> WeightLevels])>>

\* targets of one vertex anywhere, in any frame
PointTargets ==
    {Object(co, off, <<>>, <<>>, 0) : off \in Offsets, co \in [1..1 -> Coords]}

\* the target that equals the source: same vertices, same frame
CopyOf(src) == Object(src.co, src.off, src.groups, <<>>, 0)

NoContext == [active |-> "none", selected |-> {}, hidden |-> {}, mode |-> "OBJECT"]

NoWork ==
    [exists |-> FALSE, name |-> "", seam |-> {}, vgroup |-> 0,
     modifiers |-> <<>>, mod_group |-> 0, consumed |-> Empty]

NoResult == [ret |-> "NONE", report |-> "NONE"]

InitVars(src, tgt) ==
    /\ source = src
    /\ target = tgt
    /\ target0 = tgt
    /\ vert_map = Empty
    /\ hit = Empty
    /\ queried = {}
    /\ key_block_map = Empty
    /\ idx = 1
    /\ ctx = NoContext
    /\ entry = NoContext
    /\ work = NoWork
    /\ result = NoResult

InitGeo ==
    \E src \in GeoSources : \E tgt \in PointTargets \cup {CopyOf(src)} :
        InitVars(src, tgt) /\ pc = "snap"

\* a fixed strip of three vertices, with or without its triangle
LineCo == [v \in 1..3 |-> v - 1]

LineFaces == {<<>>, <<<<1, 2, 3>>>>}

LineTargets(stale) ==
    {Object(co, 0, gs, <<>>, 0) :
        co \in {c \in [1..MaxTgtVerts -> Coords] : NonDecreasing(c)},
        gs \in IF stale THEN {<<>>, StaleGroups(MaxTgtVerts)} ELSE {<<>>}}

GroupNames == <<"Arm", "Leg", "Hip">>

FullWeights(n) == {[v \in S |-> WeightLevels] : S \in SUBSET (1..n)}

\* sources whose vertex groups vary: any sparse weights in the first group,
\* full weight on any vertex set in the later ones
GroupSeqs ==
    UNION {{[i \in 1..k |-> Group(GroupNames[i], ws[i])] :
              ws \in {x \in [1..k -> SparseWeights(3)] :
                        \A i \in 2..k : x[i] \in FullWeights(3)}} :
             k \in 0..MaxGroups}

InitGroups ==
    \E fs \in LineFaces, gs \in GroupSeqs : \E tgt \in LineTargets(TRUE) :
        InitVars(Mesh(LineCo, fs, 0, gs, <<>>), tgt) /\ pc = "snap"

KeyNames == <<"A", "C", "B", "D">>

\* <<relative key index, position shift, meta>> of one non-reference key
KeyShapes(k) == (1..k) \X (1..2) \X Metas

\* sources whose shape keys vary: the reference key first, then the others
KeySeqs(co) ==
    UNION {{[i \in 1..k |->
               IF i = 1 THEN Key(KeyNames[1], 1, co, <<0, 0, 1000, FALSE>>)
               ELSE Key(KeyNames[i], sh[i][1], Shifted(co, sh[i][2]), sh[i][3])] :
             sh \in [1..k -> KeyShapes(k)]} : k \in 1..MaxKeys}

InitKeys ==
    \E fs \in LineFaces, ks \in KeySeqs(LineCo) :
        LET src == Mesh(LineCo, fs, 0, ProbeGroups(3), ks)
        IN  \E tgt \in LineTargets(FALSE) \cup {CopyOf(src)} :
                InitVars(src, tgt) /\ pc = "snap"

Init == InitGeo \/ InitGroups \/ InitKeys

\* lines 51-59: one iteration of the snap loop
Snap ==
    /\ pc = "snap"
    /\ idx <= Len(target.co)
    /\ LET q == LocalPos(source, target, target.co[idx])
       IN  IF FindNearest(source, q) = {}
           THEN UNCHANGED <<target, vert_map, hit>>
           ELSE \E f \in FindNearest(source, q) :
                  LET nv == NearestV(source, source.faces[f], q)
                  IN  /\ target' = [target EXCEPT !.co[idx] = SnappedCo(source, nv, q)]
                      /\ vert_map' = [t \in (DOMAIN vert_map) \cup {idx} |->
                                          IF t = idx THEN nv ELSE vert_map[t]]
                      /\ hit' = [t \in (DOMAIN hit) \cup {idx} |->
                                          IF t = idx THEN f ELSE hit[t]]
    /\ queried' = queried \cup {idx}
    /\ idx' = idx + 1
    /\ UNCHANGED <<source, target0, key_block_map, pc, ctx, entry, work, result>>

\* lines 61-63: the snap loop is over; target.vertex_groups.clear()
ClearGroups ==
    /\ pc = "snap"
    /\ idx > Len(target.co)
    /\ target' = [target EXCEPT !.groups = <<>>]
    /\ pc' = "groups"
    /\ idx' = 1
    /\ UNCHANGED <<source, target0, vert_map, hit, queried, key_block_map, ctx, entry, work, result>>

\* lines 64-72: one iteration of the group loop
CopyGroup ==
    /\ pc = "groups"
    /\ idx <= Len(source.groups)
    /\ target' = [target EXCEPT !.groups = TransferGroup(target.groups, source.groups[idx], vert_map)]
    /\ idx' = idx + 1
    /\ UNCHANGED <<source, target0, vert_map, hit, queried, key_block_map, pc, ctx, entry, work, result>>

\* line 74 false, then line 111: the source has no shape keys
NoKeys ==
    /\ pc = "groups"
    /\ idx > Len(source.groups)
    /\ source.keys = <<>>
    /\ pc' = "done"
    /\ UNCHANGED <<source, target, target0, vert_map, hit, queried, key_block_map, idx, ctx, entry, work, result>>

\* lines 74-88: the reference key and the name lookup
BeginKeys ==
    /\ pc = "groups"
    /\ idx > Len(source.groups)
    /\ source.keys # <<>>
    /\ LET st == KeysBegin(source, target)
       IN  /\ target' = [target EXCEPT !.keys = st.keys]
           /\ key_block_map' = st.kbm
    /\ pc' = "keys"
    /\ idx' = 1
    /\ UNCHANGED <<source, target0, vert_map, hit, queried, ctx, entry, work, result>>

\* lines 90-107: one iteration of the key loop
CopyKey ==
    /\ pc = "keys"
    /\ idx <= Len(source.keys)
    /\ LET st == KeyCopy([keys |-> target.keys, kbm |-> key_block_map], source, idx, vert_map)
       IN  /\ target' = [target EXCEPT !.keys = st.keys]
           /\ key_block_map' = st.kbm
    /\ idx' = idx + 1
    /\ UNCHANGED <<source, target0, vert_map, hit, queried, pc, ctx, entry, work, result>>

\* lines 109-111: the key loop is over
EndKeys ==
    /\ pc = "keys"
    /\ idx > Len(source.keys)
    /\ target' = [target EXCEPT !.active_key = source.active_key]
    /\ pc' = "done"
    /\ UNCHANGED <<source, target0, vert_map, hit, queried, key_block_map, idx, ctx, entry, work, result>>

Next == Snap \/ ClearGroups \/ CopyGroup \/ NoKeys \/ BeginKeys \/ CopyKey \/ EndKeys

Spec == Init /\ [][Next]_vars

(***************************************************************************)
(* Properties of transfer_mesh_data (checked under Spec)                   *)
(***************************************************************************)
TgtVerts == DOMAIN target0.co

SrcVerts == DOMAIN source.co

GroupsDone == pc \in {"keys", "done"}

\* the query point of target vertex t: its position on entry, in source space
QueryPoint(t) == LocalPos(source, target0, target0.co[t])

\* the weight a group shows at a vertex (an absent entry is weight 0)
WeightAt(g, v) == IF v \in DOMAIN g.w THEN g.w[v] ELSE 0

\* C2: once the group loop is over, the target has exactly one group per
\* source group, under the same name, and a target vertex t has a weight in
\* it iff t is mapped and source vertex vert_map[t] has a weight > 0 in the
\* source group; the weight is then exactly that source weight (also when
\* several target vertices share one source vertex).
C2_GroupReplacement ==
    GroupsDone =>
        /\ Len(target.groups) = Len(source.groups)
        /\ \A i \in DOMAIN source.groups :
             LET sg == source.groups[i]
                 named == {j \in DOMAIN target.groups : target.groups[j].name = sg.name}
             IN  /\ Cardinality(named) = 1
                 /\ \A j \in named : \A t \in TgtVerts :
                      /\ (t \in DOMAIN target.groups[j].w) <=>
                            (/\ t \in DOMAIN vert_map
                             /\ vert_map[t] \in DOMAIN sg.w
                             /\ sg.w[vert_map[t]] > 0)
                      /\ t \in DOMAIN target.groups[j].w =>
                            target.groups[j].w[t] = sg.w[vert_map[t]]

\* two target vertices share a source vertex that carries a weight, another
\* mapped vertex carries an explicit zero, and the target came with groups
C2_Witness ==
    /\ pc = "done"
    /\ target0.groups # <<>>
    /\ \E i \in DOMAIN source.groups : \E t1 \in DOMAIN vert_map, t2 \in DOMAIN vert_map :
         /\ t1 # t2
         /\ vert_map[t1] = vert_map[t2]
         /\ t1 \in DOMAIN target.groups[i].w
         /\ t2 \in DOMAIN target.groups[i].w
    /\ \E i \in DOMAIN source.groups : \E t \in DOMAIN vert_map :
         /\ vert_map[t] \in DOMAIN source.groups[i].w
         /\ source.groups[i].w[vert_map[t]] = 0

\* the source keys whose loop iteration is over
KeysCopied ==
    IF pc = "done" THEN {j \in DOMAIN source.keys : j > 1}
    ELSE IF pc = "keys" THEN {j \in DOMAIN source.keys : j > 1 /\ j < idx}
    ELSE {}

\* the index of the target key with a given name (0 when there is none)
TargetKeyNamed(nm) ==
    IF \E j \in DOMAIN target.keys : target.keys[j].name = nm
    THEN CHOOSE j \in DOMAIN target.keys : target.keys[j].name = nm
    ELSE 0

\* C4: a rebuilt key K is relative to the target key named like K's source
\* relative key when that key was created no later than K (or is the
\* reference key), and to the reference key otherwise; for source keys
\* A (reference), C (relative to B), B (relative to A) in that order, target
\* C is relative to A and target B is relative to A.
C4_RelinkByCreationOrder ==
    /\ \A j \in KeysCopied :
         LET sk == source.keys[j]
             rn == source.keys[sk.rel].name
             tk == TargetKeyNamed(sk.name)
         IN  /\ tk # 0
             /\ target.keys[tk].rel =
                   (IF sk.rel <= j THEN TargetKeyNamed(rn) ELSE 1)
             /\ sk.rel <= j => TargetKeyNamed(rn) # 0
    /\ (/\ pc = "done"
        /\ Len(source.keys) = 3
        /\ source.keys[2].rel = 3
        /\ source.keys[3].rel = 1)
       => (/\ target.keys[TargetKeyNamed(Plain("C"))].rel = TargetKeyNamed(Plain("A"))
           /\ target.keys[TargetKeyNamed(Plain("B"))].rel = TargetKeyNamed(Plain("A"))
           /\ TargetKeyNamed(Plain("A")) = 1)

\* the A, C, B scenario has run to the end
C4_Witness ==
    /\ pc = "done"
    /\ Len(source.keys) = 3
    /\ source.keys[2].name = Plain("C")
    /\ source.keys[2].rel = 3
    /\ source.keys[3].name = Plain("B")
    /\ source.keys[3].rel = 1
    /\ target.keys[2].rel = 1
    /\ target.keys[3].rel = 1

\* C5: a target vertex whose query returns no face stays out of the
\* mapping; the transfer never stops before its end; at the end the vertex
\* has its position of entry, no weight in any target group, and in every
\* rebuilt key the position of the target's reference shape, and the target
\* has one group per source group and one key per source key.
C5_MissIsNotFatal ==
    /\ (pc # "done" /\ source.faces = <<>>) => ENABLED Next
    /\ \A t \in queried : FindNearest(source, QueryPoint(t)) = {} => t \notin DOMAIN vert_map
    /\ source.faces = <<>> => vert_map = Empty
    /\ pc = "done" =>
         /\ queried = TgtVerts
         /\ Len(target.groups) = Len(source.groups)
         /\ Len(target.keys) = Len(source.keys)
         /\ \A t \in TgtVerts \ DOMAIN vert_map :
              /\ target.co[t] = target0.co[t]
              /\ \A i \in DOMAIN target.groups : t \notin DOMAIN target.groups[i].w
              /\ \A j \in DOMAIN target.keys : target.keys[j].co[t] = target.keys[1].co[t]
              /\ \A j \in DOMAIN target.keys : target.keys[j].co[t] = target0.co[t]

\* a source without faces, with weights and with keys that move vertices
C5_Witness ==
    /\ pc = "done"
    /\ source.faces = <<>>
    /\ TgtVerts # {}
    /\ vert_map = Empty
    /\ \E i \in DOMAIN source.groups : \E s \in DOMAIN source.groups[i].w : source.groups[i].w[s] > 0
    /\ Len(target.keys) >= 3
    /\ \E j \in DOMAIN source.keys : source.keys[j].value > 0 /\ ~source.keys[j].mute

\* C6, the state part: no group or key is written before every target
\* vertex has been queried, and every weight and every key position on the
\* target is the source's at vert_map[t].
C6_State ==
    /\ (pc # "snap" \/ target.groups # target0.groups \/ target.keys # target0.keys)
          => queried = TgtVerts
    /\ pc # "snap" =>
         \A i \in DOMAIN target.groups : \A t \in DOMAIN target.groups[i].w :
              /\ t \in DOMAIN vert_map
              /\ target.groups[i].w[t] = WeightAt(source.groups[i], vert_map[t])
    /\ \A j \in KeysCopied : \A t \in DOMAIN vert_map :
              target.keys[j].co[t] = source.keys[j].co[vert_map[t]]

\* C6, the step part: after the snap loop no step changes the mapping
C6_Frozen == pc # "snap" => vert_map' = vert_map

\* C6: the mapping is complete before the first group or key write, never
\* changes afterwards, and every attribute written to target vertex t is
\* read at source vertex vert_map[t], in every group and every key.
C6_MappingConsistency == [](C6_State) /\ [][C6_Frozen]_vars

\* a weight and a key position have been copied through a mapping that is
\* not the identity
C6_Witness ==
    /\ pc = "done"
    /\ \E t \in DOMAIN vert_map : vert_map[t] # t
    /\ \E i \in DOMAIN target.groups : \E t \in DOMAIN target.groups[i].w : vert_map[t] # t
    /\ \E j \in KeysCopied : \E t \in DOMAIN vert_map :
         target.keys[j].co[t] # target.keys[1].co[t]

\* C9: a target vertex is mapped iff its query returned a face; vert_map[t]
\* is a corner of that face, no corner of the face is closer to the query
\* point, it is a source vertex index, and t's position is the source
\* position of vert_map[t].
C9_VertexSnapping ==
    /\ DOMAIN hit = DOMAIN vert_map
    /\ \A t \in queried : FindNearest(source, QueryPoint(t)) # {} => t \in DOMAIN vert_map
    /\ \A t \in DOMAIN vert_map :
         LET f == source.faces[hit[t]]
             q == QueryPoint(t)
         IN  /\ vert_map[t] \in SrcVerts
             /\ vert_map[t] \in Range(f)
             /\ \A v \in Range(f) :
                  Abs(source.co[vert_map[t]] - q) <= Abs(source.co[v] - q)
             /\ target.co[t] = source.co[vert_map[t]]

\* a vertex was moved onto a face corner although a source vertex outside
\* the face is closer, and the first corner of the face was not the choice
C9_Witness ==
    \E t \in DOMAIN vert_map :
        /\ target.co[t] # target0.co[t]
        /\ vert_map[t] # source.faces[hit[t]][1]
        /\ \E v \in SrcVerts :
             /\ v \notin Range(source.faces[hit[t]])
             /\ Abs(source.co[v] - QueryPoint(t)) < Abs(source.co[vert_map[t]] - QueryPoint(t))

\* the target on entry is the source: same vertices, same positions, same frame
TargetEqualsSource ==
    /\ target0.co = source.co
    /\ target0.off = source.off

\* C3: when the target equals the source, at the end every vertex maps to
\* itself and positions, group weights, shape-key positions and shape-key
\* metadata on the target are the source's.
C3_RoundTrip ==
    (pc = "done" /\ TargetEqualsSource) =>
        /\ vert_map = [i \in SrcVerts |-> i]
        /\ target.co = source.co
        /\ Len(target.groups) = Len(source.groups)
        /\ \A i \in DOMAIN target.groups : \A v \in SrcVerts :
             WeightAt(target.groups[i], v) = WeightAt(source.groups[i], v)
        /\ Len(target.keys) = Len(source.keys)
        /\ \A j \in DOMAIN target.keys :
             /\ target.keys[j].co = source.keys[j].co
             /\ target.keys[j].value = source.keys[j].value
             /\ target.keys[j].slider_min = source.keys[j].slider_min
             /\ target.keys[j].slider_max = source.keys[j].slider_max
             /\ target.keys[j].mute = source.keys[j].mute
             /\ target.keys[j].interpolation = source.keys[j].interpolation
             /\ target.keys[j].vertex_group = source.keys[j].vertex_group

(***************************************************************************)
(* execute: the stages of the handler                                      *)
(***************************************************************************)
\* bpy.ops.object.duplicate, parent_clear(CLEAR_KEEP_TRANSFORM) and
\* transform_apply: the duplicate carries the source's groups and keys, its
\* frame is the world frame and its coordinates are world coordinates
Duplicate(src) ==
    Object([v \in DOMAIN src.co |-> src.co[v] + src.off], 0, src.groups,
           [j \in DOMAIN src.keys |->
               [src.keys[j] EXCEPT !.co = [v \in DOMAIN src.co |-> src.keys[j].co[v] + src.off]]],
           src.active_key)

\* the poll of bpy.ops.uv.seams_from_islands: the edited mesh must have
\* faces and a UV layer, or the call raises
SeamsPoll(src) == src.faces # <<>> /\ src.uv

\* uv.seams_from_islands: the edges on UV-island borders become seams
SeamsFromIslands(src) == src.seam \cup src.border

\* e.is_boundary: exactly one face uses the edge
IsBoundary(src, e) ==
    Cardinality({f \in DOMAIN src.faces : e \subseteq Range(src.faces[f])}) = 1

\* v.link_edges
LinkEdges(src, v) == {e \in src.edges : v \in e}

\* only seam edges lock their vertices
LockingSeamOnly(src, seam, e) == e \in seam

\* the edges that lock their vertices: e.seam or e.is_boundary
Locking(src, seam, e) == e \in seam \/ IsBoundary(src, e)

\* lines 165-167
SeamVerts(src, seam) ==
    {v \in DOMAIN src.co : \E e \in LinkEdges(src, v) : Locking(src, seam, e)}

\* lines 170-173: edge.other_vert(v) over the edges of the seam vertices
BufferVerts(src, seam) ==
    UNION {{u \in e : u # v} : <<v, e>> \in
              {p \in SeamVerts(src, seam) \X src.edges : p[1] \in p[2]}}

\* line 175
TotalLock(src, seam) == SeamVerts(src, seam) \cup BufferVerts(src, seam)

\* vgroup.add([v.index for v in total_lock], 1.0, "REPLACE")
AddAll(w, verts, weight) ==
    [x \in (DOMAIN w) \cup verts |-> IF x \in verts THEN weight ELSE w[x]]

\* shape_key_remove(all=False): only the last key goes
RemoveLastKey(keys) == SubSeq(keys, 1, Len(keys) - 1)

\* lines 179-180: bpy.ops.object.shape_key_remove(all=True)
RemoveShapeKeys(keys) == <<>>

\* the group a modifier finds under a name (0 when there is none)
GroupNamed(groups, name) ==
    IF \E i \in DOMAIN groups : groups[i].name = name
    THEN CHOOSE i \in DOMAIN groups : groups[i].name = name
    ELSE 0

\* line 185: mod.vertex_group = "LOCK"
ModifierGroupName == Plain("LOCK")

\* the vertices a decimation keeps, renumbered in order
RECURSIVE Renumber(_, _)
Renumber(kept, n) ==
    IF kept = {} THEN <<>>
    ELSE Append(Renumber(kept \ {MaxOf(kept)}, n), MaxOf(kept))

\* the mesh the Decimate modifier leaves: the kept vertices, their weights
Decimated(tgt, kept) ==
    LET old == Renumber(kept, Len(tgt.co))
        k   == Len(old)
    IN  [tgt EXCEPT
           !.co = [t \in 1..k |-> tgt.co[old[t]]],
           !.groups = [i \in DOMAIN tgt.groups |->
                          [tgt.groups[i] EXCEPT !.w =
                              [t \in {u \in 1..k : old[u] \in DOMAIN tgt.groups[i].w} |->
                                  tgt.groups[i].w[old[t]]]]],
           !.keys = [j \in DOMAIN tgt.keys |->
                          [tgt.keys[j] EXCEPT !.co = [t \in 1..k |-> tgt.keys[j].co[old[t]]]]]]

\* transfer_mesh_data as one step: the snap loop for a choice of faces
SnapAll(src, tgt, h) ==
    [tgt EXCEPT !.co =
        [t \in DOMAIN tgt.co |->
            IF t \in DOMAIN h
            THEN SnappedCo(src, NearestV(src, src.faces[h[t]], LocalPos(src, tgt, tgt.co[t])),
                           LocalPos(src, tgt, tgt.co[t]))
            ELSE tgt.co[t]]]

MapOf(src, tgt, h) ==
    [t \in DOMAIN h |-> NearestV(src, src.faces[h[t]], LocalPos(src, tgt, tgt.co[t]))]

\* the choices of the nearest face, one per target vertex
HitChoices(src, tgt) ==
    IF src.faces = <<>> THEN {Empty}
    ELSE {h \in [DOMAIN tgt.co -> DOMAIN src.faces] :
            \A t \in DOMAIN tgt.co : h[t] \in FindNearest(src, LocalPos(src, tgt, tgt.co[t]))}

RECURSIVE GroupsAll(_, _, _)
GroupsAll(src, map, n) ==
    IF n = 0 THEN <<>>
    ELSE TransferGroup(GroupsAll(src, map, n - 1), src.groups[n], map)

RECURSIVE KeysAll(_, _, _, _)
KeysAll(src, tgt, map, n) ==
    IF n = 0 THEN KeysBegin(src, tgt)
    ELSE KeyCopy(KeysAll(src, tgt, map, n - 1), src, n, map)

TransferAll(src, tgt, h) ==
    LET t1  == SnapAll(src, tgt, h)
        map == MapOf(src, tgt, h)
        t2  == [t1 EXCEPT !.groups = GroupsAll(src, map, Len(src.groups))]
    IN  IF src.keys = <<>> THEN t2
        ELSE [t2 EXCEPT !.keys = KeysAll(src, t2, map, Len(src.keys)).keys,
                        !.active_key = src.active_key]

\* lines 129-132: no active object, or one that is not a mesh
ExecCancel ==
    /\ pc = "execute"
    /\ ctx.active # "source"
    /\ result' = [ret |-> "CANCELLED", report |-> "ERROR"]
    /\ pc' = "returned"
    /\ UNCHANGED <<source, target, target0, vert_map, hit, queried, key_block_map,
                   idx, ctx, entry, work>>

\* lines 134-155: duplicate, bake the transform, enter edit mode
ExecDuplicate ==
    /\ pc = "execute"
    /\ ctx.active = "source"
    /\ target' = Duplicate(source)
    /\ ctx' = [ctx EXCEPT !.active = "working", !.selected = {"working"}, !.mode = "EDIT"]
    /\ work' = [work EXCEPT !.exists = TRUE, !.name = "Source.001", !.seam = source.seam]
    /\ pc' = "seams"
    /\ UNCHANGED <<source, target0, vert_map, hit, queried, key_block_map,
                   idx, entry, result>>

\* line 157 raises: the operator's poll fails
ExecSeamsRaise ==
    /\ pc = "seams"
    /\ ~SeamsPoll(source)
    /\ result' = [ret |-> "RAISED", report |-> "NONE"]
    /\ pc' = "returned"
    /\ UNCHANGED <<source, target, target0, vert_map, hit, queried, key_block_map,
                   idx, ctx, entry, work>>

\* lines 156-180: seams, the LOCK group, the classification, the keys
ExecClassify ==
    /\ pc = "seams"
    /\ SeamsPoll(source)
    /\ LET seam == SeamsFromIslands(source)
           gs   == NewGroup(target.groups, Plain("LOCK"))
           n    == Len(gs)
       IN  /\ work' = [work EXCEPT !.seam = seam, !.vgroup = n]
           /\ target' = [target EXCEPT
                  !.groups = [gs EXCEPT ![n].w =
                                 AddAll(gs[n].w, TotalLock(source, seam), WeightLevels)],
                  !.keys = IF target.keys # <<>> THEN RemoveShapeKeys(target.keys)
                           ELSE target.keys]
    /\ ctx' = [ctx EXCEPT !.mode = "OBJECT"]
    /\ pc' = "decimate"
    /\ UNCHANGED <<source, target0, vert_map, hit, queried, key_block_map,
                   idx, entry, result>>

\* lines 183-188: the Decimate modifier reads the group named "LOCK" and
\* is applied; it keeps all vertices but at most MaxCollapse of them
ExecDecimate ==
    /\ pc = "decimate"
    /\ \E gone \in {S \in SUBSET (DOMAIN target.co) :
                      Cardinality(S) <= MaxCollapse /\ S # DOMAIN target.co} :
         LET g   == GroupNamed(target.groups, ModifierGroupName)
             out == Decimated(target, (DOMAIN target.co) \ gone)
         IN  /\ work' = [work EXCEPT !.modifiers = <<>>, !.mod_group = g,
                                     !.consumed = target.groups[g].w]
             /\ target' = out
             /\ target0' = out
    /\ pc' = "transfer"
    /\ UNCHANGED <<source, vert_map, hit, queried, key_block_map, idx, ctx, entry, result>>

\* line 190: transfer_mesh_data(source_obj, working_obj)
ExecTransfer ==
    /\ pc = "transfer"
    /\ \E h \in HitChoices(source, target) :
         /\ target' = TransferAll(source, target, h)
         /\ hit' = h
         /\ vert_map' = MapOf(source, target, h)
    /\ queried' = DOMAIN target.co
    /\ pc' = "finish"
    /\ UNCHANGED <<source, target0, key_block_map, idx, ctx, entry, work, result>>

\* lines 192-205: restore the frame, rename, hide the source, report
ExecFinish ==
    /\ pc = "finish"
    /\ target' = [target EXCEPT !.off = source.off]
    /\ work' = [work EXCEPT !.name = "Source_Decimated"]
    /\ ctx' = [ctx EXCEPT !.hidden = ctx.hidden \cup {"source"}]
    /\ result' = [ret |-> "FINISHED", report |-> "INFO"]
    /\ pc' = "returned"
    /\ UNCHANGED <<source, target0, vert_map, hit, queried, key_block_map, idx, entry>>

NextExec ==
    \/ ExecCancel \/ ExecDuplicate \/ ExecSeamsRaise \/ ExecClassify
    \/ ExecDecimate \/ ExecTransfer \/ ExecFinish

(***************************************************************************)
(* SpecExec: one run of execute                                            *)
(***************************************************************************)
Pairs(n) == {{a, b} : a \in 1..n, b \in 1..n} \ {{a} : a \in 1..n}

\* a mesh with wire edges, user seams, UV-island borders and a UV layer
TopoMesh(co, faces, wires, seam, border, uv, off, groups, keys) ==
    [Mesh(co, faces, off, groups, keys) EXCEPT
        !.edges = FaceEdges(faces) \cup wires, !.seam = seam, !.border = border, !.uv = uv]

RowCo == [v \in 1..MaxSrcVerts |-> v - 1]

\* face lists without corner-order variants; a triangle listed twice is a
\* doubled face, whose edges have two faces each
PlainFaceSeqs ==
    {fs \in UNION {[1..k -> {t \in Tris(MaxSrcVerts) : t[1] < t[2] /\ t[2] < t[3]}] :
                     k \in 0..MaxTris} :
        \A i \in 1..(Len(fs) - 1) : TriCode(fs[i]) <= TriCode(fs[i + 1])}

\* meshes whose topology varies: any faces, any wire edges, any seam flags,
\* at most one unflagged face edge on a UV-island border
TopoSources ==
    UNION {UNION {UNION {
        {TopoMesh(RowCo, fs, wires, seam, border, TRUE, 0, <<>>, <<>>) :
            border \in {{}} \cup {{e} : e \in FaceEdges(fs) \ seam}} :
          seam \in SUBSET (FaceEdges(fs) \cup wires)} :
          wires \in SUBSET (Pairs(MaxSrcVerts) \ FaceEdges(fs))} :
          fs \in PlainFaceSeqs}

Contexts ==
    {[active |-> a, selected |-> s, hidden |-> {}, mode |-> "OBJECT"] :
        a \in {"none", "other", "source"}, s \in {{"source"}, {"source", "other"}}}

StripFaces == [i \in 1..(MaxSrcVerts - 2) |-> <<i, i + 1, i + 2>>]

\* the vertex groups a scene's source carries, one of them maybe named LOCK
SceneGroups ==
    {<<>>,
     <<Group("Arm", [v \in 1..2 |-> v % (WeightLevels + 1)])>>,
     <<Group("LOCK", [v \in 1..1 |-> 1])>>,
     <<Group("LOCK", [v \in 1..MaxSrcVerts |-> WeightLevels])>>,
     <<Group("Arm", [v \in 1..2 |-> WeightLevels]), Group("LOCK", Empty)>>}

SceneKeys ==
    {<<>>, <<Key("A", 1, RowCo, <<0, 0, 1000, FALSE>>)>>, ProbeKeys(RowCo)}
    \cup {ks \in KeySeqs(RowCo) : Len(ks) = MaxKeys /\ \A j \in 2..Len(ks) :
            ks[j].co = Shifted(RowCo, 1) /\ ks[j].value = 1000}

\* scenes whose context, frame, groups and keys vary; the mesh is a strip
\* of triangles (with or without seams and UV layer) or has no faces
SceneSources ==
    {TopoMesh(RowCo, StripFaces, {}, seam, border, uv, off, gs, ks) :
        seam \in {{}, {{2, 3}}},
        border \in {{}, {{1, 2}}},
        uv \in BOOLEAN,
        off \in Offsets,
        gs \in SceneGroups,
        ks \in SceneKeys}
    \cup
    {TopoMesh(RowCo, <<>>, {{1, 2}}, {}, {}, uv, off, gs, ks) :
        uv \in BOOLEAN,
        off \in Offsets,
        gs \in SceneGroups,
        ks \in SceneKeys}

NoObject == Object(<<>>, 0, <<>>, <<>>, 0)

InitExecVars(src, c) ==
    /\ source = src
    /\ target = NoObject
    /\ target0 = NoObject
    /\ vert_map = Empty
    /\ hit = Empty
    /\ queried = {}
    /\ key_block_map = Empty
    /\ idx = 1
    /\ ctx = c
    /\ entry = c
    /\ work = NoWork
    /\ result = NoResult
    /\ pc = "execute"

InitTopo ==
    \E src \in TopoSources :
        InitExecVars(src, [active |-> "source", selected |-> {"source"},
                           hidden |-> {}, mode |-> "OBJECT"])

InitScene ==
    \E src \in SceneSources : \E c \in Contexts : InitExecVars(src, c)

InitExec == InitTopo \/ InitScene

SpecExec == InitExec /\ [][NextExec]_vars

(***************************************************************************)
(* Properties of execute (checked under SpecExec)                          *)
(***************************************************************************)
\* the classification has run: the LOCK group of this run exists
Classified == work.vgroup # 0 /\ pc = "decimate"

\* an edge is a boundary edge when exactly one face is incident to it
BoundaryEdge(e) ==
    \E f \in DOMAIN source.faces :
        /\ e \subseteq Range(source.faces[f])
        /\ \A g \in DOMAIN source.faces : e \subseteq Range(source.faces[g]) => g = f

\* a vertex is locked when one of its edges is a seam or a boundary edge
LockedVert(v) ==
    \E e \in source.edges : v \in e /\ (e \in work.seam \/ BoundaryEdge(e))

\* C1: the group the classifier fills holds weight 1.0 on every locked
\* vertex and on every vertex one edge away from a locked vertex, and has
\* no entry for any other vertex; without seam and boundary edge it is empty.
C1_ProtectionWeights ==
    Classified =>
        LET w == target.groups[work.vgroup].w
        IN  /\ \A v \in DOMAIN source.co :
                 IF \/ LockedVert(v)
                    \/ \E u \in DOMAIN source.co : {u, v} \in source.edges /\ u # v /\ LockedVert(u)
                 THEN v \in DOMAIN w /\ w[v] = WeightLevels
                 ELSE v \notin DOMAIN w
            /\ (\A e \in source.edges : e \notin work.seam /\ ~BoundaryEdge(e)) => w = Empty

\* a mesh with a locked vertex, a buffer vertex that is not locked and a
\* connected vertex that is neither
C1_Witness ==
    /\ Classified
    /\ \E v \in DOMAIN source.co : LockedVert(v)
    /\ \E v \in DOMAIN target.groups[work.vgroup].w : ~LockedVert(v)
    /\ \E v \in DOMAIN source.co :
         /\ v \notin DOMAIN target.groups[work.vgroup].w
         /\ \E e \in source.edges : v \in e

KeyNamesOf(keys) == [j \in DOMAIN keys |-> keys[j].name]

C8_PreconditionOrFinished ==
    pc = "returned" =>
        IF entry.active # "source"
        THEN /\ result = [ret |-> "CANCELLED", report |-> "ERROR"]
             /\ ctx = entry
             /\ work = NoWork
             /\ target = NoObject
        ELSE result.ret = "FINISHED"

\* C10: the group the Decimate modifier reads under the name "LOCK" is the
\* group this run created and filled (weight 1.0 on exactly the locked and
\* buffer vertices), and at the end the result's groups are the source's
\* groups by name.
C10_ModifierReadsNewGroup ==
    /\ (pc \in {"transfer", "finish"} \/ result.ret = "FINISHED") =>
         /\ work.mod_group = work.vgroup
         /\ work.consumed = [v \in TotalLock(source, work.seam) |-> WeightLevels]
    /\ result.ret = "FINISHED" =>
         [i \in DOMAIN target.groups |-> target.groups[i].name]
            = [i \in DOMAIN source.groups |-> source.groups[i].name]

====
